---- MODULE Spec2Model ----
(***************************************************************************)
(* State machine of the background-remover page (src/src/main.js).         *)
(*                                                                         *)
(* The page runs on one event loop.  A step of the model is a user event   *)
(* handler, the continuation of processImage that runs when the dynamic    *)
(* import or the inference call settles, or one microtask (the             *)
(* continuation of an await on a promise that was already settled).        *)
(* Microtasks run before any further task, so every user event is disabled *)
(* while the microtask queue is not empty.  Several promises may settle in *)
(* one task: their continuations run one after the other, ahead of the     *)
(* microtasks these continuations queue.                                   *)
(*                                                                         *)
(* handleFiles may be called in any state in which no microtask is         *)
(* pending: the drop and change handlers do not look at the views.  The    *)
(* progress bar and the processing texts are written but never read by the *)
(* code and are left out.                                                  *)
(*                                                                         *)
(* The comparison slider of the page and the build-time asset fetcher      *)
(* (src/scripts/download-models.js), a separate program, have their own    *)
(* specifications, SliderSpec and FetchSpec.                               *)
(***************************************************************************)
EXTENDS Integers, Sequences, FiniteSets, TLC

\* Bounds of the model: files submitted over a run, files per handleFiles call,
\* resources of a manifest, chunks of a resource.
MaxFiles == 3
MaxBatchLen == 3
MaxResources == 2
MaxChunks == 2

VARIABLES
  removeBackgroundFn,   \* main.js:2   Null or the imported inference function
  modelLoaded,          \* main.js:3
  processedImages,      \* main.js:6   sequence of image records (index 0 is [1])
  currentImageIndex,    \* main.js:7   0-based, -1 when nothing was processed
  uploadDisplay,        \* uploadZone.style.display: "", "none" or "block"
  processingActive,     \* processingContainer has class 'active'
  resultActive,         \* resultContainer has class 'active'
  errorActive,          \* errorMessage has class 'active'
  errorText,            \* errorMessage.textContent
  originalSrc,          \* originalImage.src
  resultSrc,            \* resultImage.src
  queueActive,          \* queueContainer has class 'active'
  queueList,            \* children of queueList, each with its click handler
  detached,             \* indexes captured by handlers of items removed from queueList
  tasks,                \* processImage invocations suspended at an await
  mq,                   \* microtask queue (FIFO)
  nextBatch,            \* number of the next handleFiles call
  rejected,             \* history: files the validation filter returned false for
  started,              \* history: files processImage was called with
  download,             \* the download link clicked by the latest event, if any
  lastEvent,            \* history: the latest event that was handled
  failedFiles,          \* history: files whose processImage call ended in its catch block
  isDragging,           \* main.js:151
  sliderPosition,       \* clampedPercentage last written to sliderLine.style.left
  fetch                 \* download-models.js: the state of main(), a record of
                        \*   pc          where main() stands
                        \*   manifest    resources.json as parsed: a sequence of resources
                        \*   present     chunk files that exist in public/models
                        \*   pending     hashes of allChunks the loop has not reached yet
                        \*   downloaded, skipped, failed, totalBytes   (lines 83-86)
                        \*   exitCode    exit code of the process, -1 while it runs
                        \*   log         one entry per console line of the chunk loop

vars == <<removeBackgroundFn, modelLoaded, processedImages, currentImageIndex,
          uploadDisplay, processingActive, resultActive, errorActive, errorText,
          originalSrc, resultSrc, queueActive, queueList, detached, tasks, mq,
          nextBatch, rejected, started, download, lastEvent, failedFiles,
          isDragging, sliderPosition, fetch>>

model == <<removeBackgroundFn, modelLoaded>>
store == <<processedImages, currentImageIndex>>
views == <<uploadDisplay, processingActive, resultActive>>
errors == <<errorActive, errorText>>
shown == <<originalSrc, resultSrc, sliderPosition>>
queue == <<queueActive, queueList, detached>>
hist == <<nextBatch, rejected, started>>
\* What the handlers of the upload, pipeline, queue and keyboard code never
\* write: the drag flag of the slider and the state of the asset fetcher.
aside == <<isDragging, fetch>>
page == <<model, store, views, errors, shown, queue, tasks, mq, hist, failedFiles,
          download, lastEvent>>

----------------------------------------------------------------------------
\* Values

Null == "null"
TheModule == "removeBackground"      \* module.removeBackground of the one module

NoSrc == <<"none", <<0, 0>>>>
NoDownload == [href |-> NoSrc, name |-> NoSrc]

\* URL.createObjectURL(file) and URL.createObjectURL(resultBlob); a file is
\* identified by <<number of its handleFiles call, position in that call>>.
OriginalUrl(id) == <<"original", id>>
ResultUrl(id) == <<"result", id>>
NobgName(id) == <<"_nobg.png", id>>

TypeErrorText == "Please upload JPG, PNG, or WebP images only."
SizeErrorText == "Image size must be less than 10MB."
LoadErrorText == "Failed to load background removal model: "
ImportMessages == {"", "net"}                   \* error.message of a rejected import()
\* The message of the error initializeModel throws (main.js:42)
LoadError(msg) == LoadErrorText \o msg
DefaultErrorText == "Failed to process image. Please try again."
InferenceMessages == {"", "inference failed"}   \* error.message of a rejected call

----------------------------------------------------------------------------
\* Validation filter of handleFiles

validTypes == {"image/jpeg", "image/png", "image/webp"}
maxSize == 10 * 1024 * 1024

\* Faulty variant: the size test rejects a file of exactly maxSize.
IsValidFileBelowLimit(file) ==
  IF ~(file.type \in validTypes) THEN FALSE
  ELSE IF file.size >= maxSize THEN FALSE
  ELSE TRUE

\* The filter callback's return value for one file.
IsValidFile(file) ==
  IF ~(file.type \in validTypes) THEN FALSE
  ELSE IF file.size > maxSize THEN FALSE
  ELSE TRUE

\* The message the filter callback passes to showError for a rejected file.
RejectText(file) ==
  IF ~(file.type \in validTypes) THEN TypeErrorText ELSE SizeErrorText

\* Faulty variant: handleFiles goes on with files instead of validFiles.
UnfilteredPositions(files, k) == [i \in 1..(Len(files) - k + 1) |-> i + k - 1]

\* Positions (1-based) of the accepted files, in the order given.
RECURSIVE ValidPositions(_, _)
ValidPositions(files, k) ==
  IF k > Len(files) THEN <<>>
  ELSE (IF IsValidFile(files[k]) THEN <<k>> ELSE <<>>) \o ValidPositions(files, k + 1)

RejectedPositions(files) == {k \in 1..Len(files) : ~IsValidFile(files[k])}

\* errorMessage.textContent after the filter ran over files: the callback runs
\* in order, so the text is that of the last rejected file.
FilterErrorText(files, before) ==
  IF RejectedPositions(files) = {} THEN before
  ELSE LET last == CHOOSE k \in RejectedPositions(files) :
                      \A j \in RejectedPositions(files) : j <= k
       IN RejectText(files[last])

----------------------------------------------------------------------------
\* Inputs

FileTypes == {"image/jpeg", "image/png", "image/webp", "image/gif"}
FileSizes == {0, maxSize - 1, maxSize, maxSize + 1}
AllFiles == [type : FileTypes, size : FileSizes]

\* The three files of the end-to-end scenarios: a JPEG of exactly 10 MiB,
\* a PNG one byte larger, and a small GIF.
SampleFiles == {[type |-> "image/jpeg", size |-> maxSize],
                [type |-> "image/png", size |-> maxSize + 1],
                [type |-> "image/gif", size |-> 0]}

BatchesOf(S) == UNION {[1..n -> S] : n \in 1..MaxBatchLen}

Keys == {"ArrowLeft", "ArrowRight", "d", "D", "n", "N", "x"}

NoFile == <<0, 0>>
Event(type, key, index, file, files) ==
  [type |-> type, key |-> key, index |-> index, file |-> file, files |-> files]

----------------------------------------------------------------------------
\* Comparison slider: the arithmetic of handleSliderMove and setSliderPosition

\* A JavaScript number as far as the slider needs it: the rational num/den in
\* lowest terms, NaN, or an infinity.  Unset is the state of
\* sliderLine.style.left before the first setSliderPosition call.
RECURSIVE GCD(_, _)
GCD(a, b) == IF b = 0 THEN a ELSE GCD(b, a % b)
Abs(n) == IF n < 0 THEN -n ELSE n
Number(n, d) ==
  LET g == GCD(Abs(n), d) IN [kind |-> "number", num |-> n \div g, den |-> d \div g]
NaN == [kind |-> "NaN", num |-> 0, den |-> 1]
PosInfinity == [kind |-> "+Infinity", num |-> 0, den |-> 1]
NegInfinity == [kind |-> "-Infinity", num |-> 0, den |-> 1]
Unset == [kind |-> "unset", num |-> 0, den |-> 1]

\* (x / rect.width) * 100 with x = clientX - rect.left (main.js:162-163);
\* a division by zero gives NaN for 0/0 and an infinity otherwise.
Percentage(clientX, rect) ==
  LET x == clientX - rect.left
  IN IF rect.width = 0
     THEN (IF x = 0 THEN NaN ELSE IF x > 0 THEN PosInfinity ELSE NegInfinity)
     ELSE Number(100 * x, rect.width)

\* Math.min(100, p) and Math.max(0, p): NaN if an argument is NaN
MathMin100(p) ==
  IF p.kind = "NaN" THEN NaN
  ELSE IF p.kind = "+Infinity" THEN Number(100, 1)
  ELSE IF p.kind = "-Infinity" THEN NegInfinity
  ELSE IF p.num > 100 * p.den THEN Number(100, 1) ELSE p

MathMax0(p) ==
  IF p.kind = "NaN" THEN NaN
  ELSE IF p.kind = "+Infinity" THEN PosInfinity
  ELSE IF p.kind = "-Infinity" THEN Number(0, 1)
  ELSE IF p.num < 0 THEN Number(0, 1) ELSE p

\* clampedPercentage of setSliderPosition(percentage) (main.js:154)
setSliderPosition(percentage) == MathMax0(MathMin100(percentage))

\* handleSliderMove(clientX) with rect = comparisonContainer.getBoundingClientRect()
handleSliderMove(clientX, rect) == setSliderPosition(Percentage(clientX, rect))

\* Pointer coordinates and bounding boxes of the comparison container; the
\* box of a container that is not rendered has left 0 and width 0.
ClientXs == {-10, 0, 100, 150, 200, 300, 400}
Rects == {[left |-> 0, width |-> 0], [left |-> 100, width |-> 200],
          [left |-> 100, width |-> 300]}
RectOf(rect) == <<rect.left, rect.width>>
TouchLists == UNION {[1..n -> {0, 150, 400}] : n \in 1..2}

\* Where a press or a click lands: on sliderLine, on an element inside it, or
\* on the images of the comparison container outside the line.
Targets == {"sliderLine", "insideSliderLine", "image"}
OnSliderLine(target) == target = "sliderLine" \/ target = "insideSliderLine"

----------------------------------------------------------------------------
\* UI state management (action fragments, composed by the handlers below)

\* showProcessing()
ShowProcessing ==
  /\ uploadDisplay' = "none"
  /\ processingActive' = TRUE
  /\ resultActive' = FALSE

\* Faulty variant: showResult leaves originalImage.src as it was.
ShowResultKeepsOriginal(imageData) ==
  /\ processingActive' = FALSE
  /\ uploadDisplay' = "none"
  /\ originalSrc' = originalSrc
  /\ resultSrc' = imageData.result
  /\ sliderPosition' = setSliderPosition(Number(50, 1))
  /\ resultActive' = TRUE

\* showResult(imageData): hideProcessing(), hide upload, set both images,
\* setSliderPosition(50), show result
ShowResult(imageData) ==
  /\ processingActive' = FALSE
  /\ uploadDisplay' = "none"
  /\ originalSrc' = imageData.original
  /\ resultSrc' = imageData.result
  /\ sliderPosition' = setSliderPosition(Number(50, 1))
  /\ resultActive' = TRUE

\* Faulty variant: the catch block without hideProcessing().
ShowFailureKeepsProcessing(message) ==
  /\ errorText' = message
  /\ errorActive' = TRUE
  /\ uploadDisplay' = "block"
  /\ resultActive' = FALSE
  /\ UNCHANGED processingActive

\* The catch block's showError(message); hideProcessing(); showUpload()
ShowFailure(message) ==
  /\ errorText' = message
  /\ errorActive' = TRUE
  /\ processingActive' = FALSE
  /\ uploadDisplay' = "block"
  /\ resultActive' = FALSE

\* Faulty variant: the click handlers capture the 1-based position.
QueueItemsOneBased(images, cursor) ==
  [k \in 1..Len(images) |->
     [index |-> k, src |-> images[k].result, active |-> (k = cursor)]]

\* The items updateQueue builds from processedImages.forEach
QueueItems(images, cursor) ==
  [k \in 1..Len(images) |->
     [index |-> k - 1, src |-> images[k].result, active |-> (k - 1 = cursor)]]

ItemIndexes(list) == {list[k].index : k \in 1..Len(list)}

\* Faulty variant: the queue is hidden up to two images.
UpdateQueueFromThird ==
  IF Len(processedImages') <= 2
  THEN /\ queueActive' = FALSE
       /\ UNCHANGED <<queueList, detached>>
  ELSE /\ queueActive' = TRUE
       /\ queueList' = QueueItems(processedImages', currentImageIndex')
       /\ detached' = detached \cup ItemIndexes(queueList)

\* updateQueue(), run on the new values of processedImages and currentImageIndex
UpdateQueue ==
  IF Len(processedImages') <= 1
  THEN /\ queueActive' = FALSE
       /\ UNCHANGED <<queueList, detached>>
  ELSE /\ queueActive' = TRUE
       /\ queueList' = QueueItems(processedImages', currentImageIndex')
       /\ detached' = detached \cup ItemIndexes(queueList)

\* The download button's click handler
DownloadLink ==
  IF currentImageIndex >= 0 /\ currentImageIndex < Len(processedImages)
  THEN [href |-> processedImages[currentImageIndex + 1].result,
        name |-> processedImages[currentImageIndex + 1].name]
  ELSE NoDownload

----------------------------------------------------------------------------
\* processImage and initializeModel

\* A processImage invocation suspended at an await.  phase "import": inside
\* initializeModel, awaiting import(); "init": awaiting the already resolved
\* promise of initializeModel; "inference": awaiting removeBackgroundFn(file, config).
\* rest: the files processRemainingFiles still has to loop over after this one.
NewTask(id, rest) ==
  [file |-> id, phase |-> IF removeBackgroundFn = Null THEN "import" ELSE "init",
   rest |-> rest]

Microtask(kind, id, rest) == [kind |-> kind, file |-> id, rest |-> rest]

\* The microtask that resumes processImage(id) after `await initializeModel()`
\* when initializeModel returned at once (main.js:30).
InitMicrotasks(id) ==
  IF removeBackgroundFn = Null THEN <<>> ELSE <<Microtask("afterInit", id, <<>>)>>

\* Faulty variant: processRemainingFiles stops after its first file.
LoopStops(rest) == <<>>

\* The microtask that resumes processRemainingFiles after `await processImage(file)`.
LoopMicrotasks(rest) ==
  IF rest = <<>> THEN <<>> ELSE <<Microtask("loop", Head(rest), Tail(rest))>>

\* processImage(file) up to its first await, for the files called in one step:
\* showProcessing(); hideError(); initializeModel() up to import() or its return.
ProcessImageStart(new) ==
  /\ ShowProcessing
  /\ errorActive' = FALSE
  /\ tasks' = tasks \cup new
  /\ started' = started \cup {t.file : t \in new}
  /\ UNCHANGED <<model, store, shown, queue>>

ImageData(id) ==
  [original |-> OriginalUrl(id), result |-> ResultUrl(id),
   resultBlob |-> <<"blob", id>>, name |-> NobgName(id)]

----------------------------------------------------------------------------
\* handleFiles(files)

HandleFiles(files) ==
  LET pos == ValidPositions(files, 1)
      validFiles == [i \in 1..Len(pos) |-> <<nextBatch, pos[i]>>]
      first == NewTask(validFiles[1], <<>>)
      remaining == Tail(validFiles)
      second == NewTask(Head(remaining), Tail(remaining))
  IN /\ mq = <<>>
     /\ nextBatch' = nextBatch + 1
     /\ rejected' = rejected \cup {<<nextBatch, k>> : k \in RejectedPositions(files)}
     /\ errorText' = FilterErrorText(files, errorText)
     /\ download' = NoDownload
     /\ lastEvent' = Event("handleFiles", "", Len(pos), NoFile, files)
     /\ UNCHANGED <<failedFiles, aside>>
     /\ IF Len(validFiles) = 0
        THEN /\ errorActive' = (errorActive \/ RejectedPositions(files) # {})
             /\ UNCHANGED <<model, store, views, shown, queue, tasks, mq, started>>
        ELSE IF Len(validFiles) = 1
        THEN /\ ProcessImageStart({first})
             /\ mq' = InitMicrotasks(first.file)
        ELSE /\ ProcessImageStart({first, second})
             /\ mq' = InitMicrotasks(first.file) \o InitMicrotasks(second.file)

\* The files submitted so far: rejected, passed to processImage, or still
\* waiting in a processRemainingFiles loop.
RECURSIVE Range(_)
Range(seq) == IF seq = <<>> THEN {} ELSE {Head(seq)} \cup Range(Tail(seq))

Waiting ==
  UNION {Range(t.rest) : t \in tasks}
    \cup UNION {IF mq[k].kind = "loop" THEN {mq[k].file} \cup Range(mq[k].rest) ELSE {}
                  : k \in 1..Len(mq)}

Submitted == rejected \cup started \cup Waiting

\* A drop or a file-input change with the given files.
Submit ==
  /\ mq = <<>>
  /\ Cardinality(Submitted) < MaxFiles
  /\ \E files \in BatchesOf(SampleFiles) :
       /\ Cardinality(Submitted) + Len(files) <= MaxFiles
       /\ HandleFiles(files)

----------------------------------------------------------------------------
\* Continuations

\* One microtask: either processImage resumes after initializeModel and calls
\* removeBackgroundFn (main.js:54-78), or processRemainingFiles calls
\* processImage with its next file (main.js:271-272).
RunMicrotask ==
  /\ mq # <<>>
  /\ LET m == Head(mq) IN
       /\ download' = NoDownload
       /\ lastEvent' = Event(m.kind, "", 0, m.file, <<>>)
       /\ UNCHANGED <<nextBatch, rejected, failedFiles, aside>>
       /\ IF m.kind = "afterInit"
          THEN /\ tasks' = {IF t.file = m.file THEN [t EXCEPT !.phase = "inference"] ELSE t
                              : t \in tasks}
               /\ mq' = Tail(mq)
               /\ UNCHANGED <<model, store, views, errors, shown, queue, started>>
          ELSE /\ ProcessImageStart({NewTask(m.file, m.rest)})
               /\ mq' = Tail(mq) \o InitMicrotasks(m.file)
               /\ UNCHANGED errorText

\* import() resolves: initializeModel stores the function (main.js:38-40) and returns.
\* A promise may settle in the task in which another one settled, so the
\* continuations of settled promises do not wait for an empty microtask queue;
\* the microtasks they queue come after those already queued.
ImportResolve(t) ==
  /\ t \in tasks /\ t.phase = "import"
  /\ removeBackgroundFn' = TheModule
  /\ modelLoaded' = TRUE
  /\ tasks' = (tasks \ {t}) \cup {[t EXCEPT !.phase = "init"]}
  /\ mq' = Append(mq, Microtask("afterInit", t.file, <<>>))
  /\ download' = NoDownload
  /\ lastEvent' = Event("importResolve", "", 0, t.file, <<>>)
  /\ UNCHANGED <<store, views, errors, shown, queue, hist, failedFiles, aside>>

\* Faulty variant: the file that failed is passed to processImage again.
RetryAfterFailure(t) == <<Microtask("loop", t.file, t.rest)>>

\* processImage returns normally from its catch block, so the loop of
\* processRemainingFiles goes on with the next file (main.js:271-273).
AfterFailure(t) == LoopMicrotasks(t.rest)

\* The catch block of processImage (main.js:100-105), then processImage returns.
Catch(t, type, message) ==
  /\ ShowFailure(message)
  /\ tasks' = tasks \ {t}
  /\ mq' = mq \o AfterFailure(t)
  /\ download' = NoDownload
  /\ lastEvent' = Event(type, "", 0, t.file, <<>>)
  /\ failedFiles' = failedFiles \cup {t.file}
  /\ UNCHANGED <<model, store, shown, queue, hist, aside>>

\* import() rejects with an error whose message is msg: initializeModel
\* throws (main.js:41-43).
ImportReject(t, msg) ==
  /\ t \in tasks /\ t.phase = "import"
  /\ Catch(t, "importReject", LoadError(msg))

\* removeBackgroundFn(file, config) rejects with an error whose message is msg.
InferenceReject(t, msg) ==
  /\ t \in tasks /\ t.phase = "inference"
  /\ Catch(t, "inferenceReject", IF msg = "" THEN DefaultErrorText ELSE msg)

\* Faulty variant: the cursor is set to the length.
LengthAsIndex(images) == Len(images)

\* processedImages.length - 1 (main.js:94)
LastIndex(images) == Len(images) - 1

\* removeBackgroundFn(file, config) resolves (main.js:79-98).
InferenceResolve(t) ==
  /\ t \in tasks /\ t.phase = "inference"
  /\ processedImages' = Append(processedImages, ImageData(t.file))
  /\ currentImageIndex' = LastIndex(processedImages')
  /\ ShowResult(ImageData(t.file))
  /\ UpdateQueue
  /\ tasks' = tasks \ {t}
  /\ mq' = mq \o LoopMicrotasks(t.rest)
  /\ download' = NoDownload
  /\ lastEvent' = Event("inferenceResolve", "", 0, t.file, <<>>)
  /\ UNCHANGED <<model, errors, hist, failedFiles, aside>>

----------------------------------------------------------------------------
\* User events

\* The new-image button's click handler: showUpload(); hideError()
NewImage ==
  /\ uploadDisplay' = "block"
  /\ resultActive' = FALSE
  /\ errorActive' = FALSE
  /\ UNCHANGED <<processingActive, errorText>>

\* The body of the two arrow-key branches and of a queue item's click handler,
\* once currentImageIndex has its new value.
ShowCurrent ==
  /\ UNCHANGED <<processedImages, errors>>
  /\ IF currentImageIndex' >= 0 /\ currentImageIndex' < Len(processedImages)
     THEN /\ ShowResult(processedImages[currentImageIndex' + 1])
          /\ UpdateQueue
     ELSE \* showResult(undefined) throws at imageData.original (main.js:128),
          \* after hideProcessing() and hiding the upload zone
          /\ processingActive' = FALSE
          /\ uploadDisplay' = "none"
          /\ UNCHANGED <<resultActive, shown, queue>>

\* Faulty variant: ArrowLeft is also taken at index 0.
CanGoPreviousAtZero == currentImageIndex >= 0

\* The guards of the two arrow-key branches (main.js:328, main.js:332)
CanGoPrevious == currentImageIndex > 0
CanGoNext == currentImageIndex < Len(processedImages) - 1

\* Faulty variant: the shortcuts work in every view.
ShortcutsAlways == TRUE

\* resultContainer.classList.contains('active') (main.js:327)
ShortcutsEnabled == resultActive

\* document keydown
KeyDown(key) ==
  /\ mq = <<>>
  /\ lastEvent' = Event("keydown", key, 0, NoFile, <<>>)
  /\ UNCHANGED <<model, tasks, mq, hist, failedFiles, aside>>
  /\ IF ~ShortcutsEnabled
     THEN /\ download' = NoDownload
          /\ UNCHANGED <<store, views, errors, shown, queue>>
     ELSE IF key = "ArrowLeft" /\ CanGoPrevious
     THEN /\ currentImageIndex' = currentImageIndex - 1
          /\ ShowCurrent
          /\ download' = NoDownload
     ELSE IF key = "ArrowRight" /\ CanGoNext
     THEN /\ currentImageIndex' = currentImageIndex + 1
          /\ ShowCurrent
          /\ download' = NoDownload
     ELSE IF key = "d" \/ key = "D"
     THEN /\ download' = DownloadLink
          /\ UNCHANGED <<store, views, errors, shown, queue>>
     ELSE IF key = "n" \/ key = "N"
     THEN /\ NewImage
          /\ download' = NoDownload
          /\ UNCHANGED <<store, shown, queue>>
     ELSE /\ download' = NoDownload
          /\ UNCHANGED <<store, views, errors, shown, queue>>

\* Click on a queue item whose handler captured index i; the item is in the
\* list ("listed"), or was removed from it by a later updateQueue ("detached").
ItemStates == {"listed", "detached"}

ClickQueueItem(i, where) ==
  /\ mq = <<>>
  /\ where \in ItemStates
  /\ i \in (IF where = "listed" THEN ItemIndexes(queueList) ELSE detached)
  /\ lastEvent' = Event("clickItem", where, i, NoFile, <<>>)
  /\ download' = NoDownload
  /\ currentImageIndex' = i
  /\ ShowCurrent
  /\ UNCHANGED <<model, tasks, mq, hist, failedFiles, aside>>

ClickDownload ==
  /\ mq = <<>>
  /\ lastEvent' = Event("clickDownload", "", 0, NoFile, <<>>)
  /\ download' = DownloadLink
  /\ UNCHANGED <<model, store, views, errors, shown, queue, tasks, mq, hist,
                 failedFiles, aside>>

ClickNewImage ==
  /\ mq = <<>>
  /\ lastEvent' = Event("clickNewImage", "", 0, NoFile, <<>>)
  /\ download' = NoDownload
  /\ NewImage
  /\ UNCHANGED <<model, store, shown, queue, tasks, mq, hist, failedFiles, aside>>

----------------------------------------------------------------------------
\* Slider events (main.js:167-203)

SliderEvent(type, target, clientX, rect, touches) ==
  /\ mq = <<>>
  /\ lastEvent' = Event(type, target, clientX, RectOf(rect), touches)
  /\ download' = NoDownload
  /\ UNCHANGED <<model, store, views, errors, originalSrc, resultSrc, queue,
                 tasks, mq, hist, failedFiles, fetch>>

NoRect == [left |-> 0, width |-> 0]

\* mousedown and touchstart: the listeners are on sliderLine, so they run for
\* a press on the line or inside it and for no other press.
Press(type, target) ==
  /\ SliderEvent(type, target, 0, NoRect, <<>>)
  /\ isDragging' = (IF OnSliderLine(target) THEN TRUE ELSE isDragging)
  /\ UNCHANGED sliderPosition

MouseDown(target) == Press("mousedown", target)
TouchStart(target) == Press("touchstart", target)

\* mouseup and touchend on document
Release(type) ==
  /\ SliderEvent(type, "", 0, NoRect, <<>>)
  /\ isDragging' = FALSE
  /\ UNCHANGED sliderPosition

MouseUp == Release("mouseup")
TouchEnd == Release("touchend")

\* Faulty variant: a mouse move is followed whether or not a drag is going on.
FollowsMouseAlways == TRUE

\* The guards of the mousemove, touchmove and click listeners
FollowsMouse == isDragging
FollowsTouch(touches) == isDragging /\ Len(touches) = 1
FollowsClick(target) == ~OnSliderLine(target)

\* mousemove on document
MouseMove(clientX, rect) ==
  /\ SliderEvent("mousemove", "", clientX, rect, <<>>)
  /\ sliderPosition' = (IF FollowsMouse THEN handleSliderMove(clientX, rect)
                                         ELSE sliderPosition)
  /\ UNCHANGED isDragging

\* touchmove on document; touches holds the clientX of each touch point
TouchMove(touches, rect) ==
  /\ SliderEvent("touchmove", "", touches[1], rect, touches)
  /\ sliderPosition' = (IF FollowsTouch(touches) THEN handleSliderMove(touches[1], rect)
                                                  ELSE sliderPosition)
  /\ UNCHANGED isDragging

\* click on comparisonContainer
Click(target, clientX, rect) ==
  /\ SliderEvent("click", target, clientX, rect, <<>>)
  /\ sliderPosition' = (IF FollowsClick(target) THEN handleSliderMove(clientX, rect)
                                                 ELSE sliderPosition)
  /\ UNCHANGED isDragging

----------------------------------------------------------------------------
\* Asset fetcher: main() of scripts/download-models.js

\* Chunk hashes, byte lengths of a downloaded chunk, and the manifests read
\* from resources.json: a resource has a chunks array or none.
Hashes == {"a", "b"}
ChunkSizes == {1, 2}
Resources ==
  {[hasChunks |-> FALSE, chunks |-> <<>>]}
    \cup {[hasChunks |-> TRUE, chunks |-> c] :
            c \in UNION {[1..n -> Hashes] : n \in 0..MaxChunks}}
Manifests == UNION {[1..n -> Resources] : n \in 0..MaxResources}

\* Faulty variant: allChunks is an array, a hash is added each time it occurs.
AddHashAgain(chunks, hash) == Append(chunks, hash)

\* allChunks.add(chunk.hash): a Set keeps one entry per hash, in insertion order
AddHash(chunks, hash) ==
  IF \E k \in 1..Len(chunks) : chunks[k] = hash THEN chunks ELSE Append(chunks, hash)

RECURSIVE AddChunks(_, _)
AddChunks(chunks, list) ==
  IF list = <<>> THEN chunks ELSE AddChunks(AddHash(chunks, Head(list)), Tail(list))

\* The loop over Object.entries(resources) that fills allChunks
RECURSIVE AllChunks(_, _)
AllChunks(resources, chunks) ==
  IF resources = <<>> THEN chunks
  ELSE AllChunks(Tail(resources),
                 IF Head(resources).hasChunks
                 THEN AddChunks(chunks, Head(resources).chunks) ELSE chunks)

LogEntry(hash, outcome, size) == [hash |-> hash, outcome |-> outcome, size |-> size]

\* main() up to the download of resources.json; disk: the chunk files that
\* an earlier run left in public/models.
Main(disk) ==
  /\ fetch.pc = "start"
  /\ fetch' = [fetch EXCEPT !.pc = "manifest", !.present = disk]
  /\ UNCHANGED <<page, isDragging>>

\* downloadFile(resourcesUrl, resourcesPath) throws: process.exit(1)
ManifestFailed ==
  /\ fetch.pc = "manifest"
  /\ fetch' = [fetch EXCEPT !.pc = "exited", !.exitCode = 1]
  /\ UNCHANGED <<page, isDragging>>

\* resources.json was downloaded but JSON.parse throws: main() rejects and
\* the handler of main().catch calls process.exit(1).
ManifestUnreadable ==
  /\ fetch.pc = "manifest"
  /\ fetch' = [fetch EXCEPT !.pc = "exited", !.exitCode = 1]
  /\ UNCHANGED <<page, isDragging>>

\* resources.json was downloaded and parsed to m: allChunks is filled and the
\* counters are set to 0.
ManifestFetched(m) ==
  /\ fetch.pc = "manifest"
  /\ fetch' = [fetch EXCEPT !.pc = "chunks", !.manifest = m,
                            !.pending = AllChunks(m, <<>>),
                            !.downloaded = 0, !.skipped = 0, !.failed = 0,
                            !.totalBytes = 0]
  /\ UNCHANGED <<page, isDragging>>

\* Faulty variant: the loop is left after a chunk that failed.
StopAfterFailure(rest) == <<>>

\* The catch block of the loop body ends the iteration, not the loop.
ContinueAfterFailure(rest) == rest

\* The loop `for (const hash of allChunks)` is at hash.
LoopAt(hash) ==
  fetch.pc = "chunks" /\ fetch.pending # <<>> /\ hash = Head(fetch.pending)

\* One iteration whose chunk file exists
ChunkExists(hash) ==
  /\ LoopAt(hash)
  /\ hash \in fetch.present
  /\ fetch' = [fetch EXCEPT !.skipped = @ + 1,
                            !.pending = Tail(@),
                            !.log = Append(@, LogEntry(hash, "exists", 0))]
  /\ UNCHANGED <<page, isDragging>>

\* One iteration in which downloadFile returns size
ChunkDownloaded(hash, size) ==
  /\ LoopAt(hash)
  /\ ~(hash \in fetch.present)
  /\ fetch' = [fetch EXCEPT !.present = @ \cup {hash},
                            !.totalBytes = @ + size,
                            !.downloaded = @ + 1,
                            !.pending = Tail(@),
                            !.log = Append(@, LogEntry(hash, "downloaded", size))]
  /\ UNCHANGED <<page, isDragging>>

\* One iteration in which downloadFile throws
ChunkFailed(hash) ==
  /\ LoopAt(hash)
  /\ ~(hash \in fetch.present)
  /\ fetch' = [fetch EXCEPT !.failed = @ + 1,
                            !.pending = ContinueAfterFailure(Tail(@)),
                            !.log = Append(@, LogEntry(hash, "failed", 0))]
  /\ UNCHANGED <<page, isDragging>>

\* The loop is over: the summary is printed and main() returns.
Summary ==
  /\ fetch.pc = "chunks" /\ fetch.pending = <<>>
  /\ fetch' = [fetch EXCEPT !.pc = "done", !.exitCode = 0]
  /\ UNCHANGED <<page, isDragging>>

----------------------------------------------------------------------------
\* Specification

\* The page as index.html delivers it: the upload zone is displayed and no
\* container carries the class 'active'.
Markup == [uploadDisplay |-> "", processing |-> FALSE, result |-> FALSE,
           error |-> FALSE, queue |-> FALSE]

Init ==
  /\ removeBackgroundFn = Null
  /\ modelLoaded = FALSE
  /\ processedImages = <<>>
  /\ currentImageIndex = -1
  /\ uploadDisplay = Markup.uploadDisplay
  /\ processingActive = Markup.processing
  /\ resultActive = Markup.result
  /\ errorActive = Markup.error
  /\ errorText = ""
  /\ originalSrc = NoSrc
  /\ resultSrc = NoSrc
  /\ queueActive = Markup.queue
  /\ queueList = <<>>
  /\ detached = {}
  /\ tasks = {}
  /\ mq = <<>>
  /\ nextBatch = 1
  /\ rejected = {}
  /\ started = {}
  /\ download = NoDownload
  /\ lastEvent = Event("load", "", 0, NoFile, <<>>)
  /\ failedFiles = {}
  /\ isDragging = FALSE
  /\ sliderPosition = Unset
  /\ fetch = [pc |-> "start", manifest |-> <<>>, present |-> {}, pending |-> <<>>,
              downloaded |-> 0, skipped |-> 0, failed |-> 0, totalBytes |-> 0,
              exitCode |-> -1, log |-> <<>>]

Next ==
  \/ Submit
  \/ RunMicrotask
  \/ \E t \in tasks : ImportResolve(t)
  \/ \E t \in tasks, msg \in ImportMessages : ImportReject(t, msg)
  \/ \E t \in tasks : InferenceResolve(t)
  \/ \E t \in tasks, msg \in InferenceMessages : InferenceReject(t, msg)
  \/ \E key \in Keys : KeyDown(key)
  \/ \E i \in ItemIndexes(queueList) \cup detached, where \in ItemStates :
       ClickQueueItem(i, where)
  \/ ClickDownload
  \/ ClickNewImage

Spec == Init /\ [][Next]_vars

\* handleFiles on the freshly loaded page, over every batch of AllFiles.
SubmitAny ==
  /\ nextBatch = 1
  /\ \E files \in BatchesOf(AllFiles) :
       /\ Cardinality(Submitted) + Len(files) <= MaxFiles
       /\ HandleFiles(files)

FilterNext ==
  \/ SubmitAny
  \/ RunMicrotask
  \/ \E t \in tasks : ImportResolve(t)

FilterSpec == Init /\ [][FilterNext]_vars

\* Runs in which every import and every inference call returns successfully.
LiveNext ==
  \/ Submit
  \/ RunMicrotask
  \/ \E t \in tasks : ImportResolve(t)
  \/ \E t \in tasks : InferenceResolve(t)
  \/ \E key \in Keys : KeyDown(key)
  \/ \E i \in ItemIndexes(queueList) \cup detached, where \in ItemStates :
       ClickQueueItem(i, where)
  \/ ClickDownload
  \/ ClickNewImage

\* The event loop runs every queued microtask, and while promises of the
\* import or of the inference call are pending one of them is eventually settled.
\* (A microtask always changes mq and a settled promise always changes tasks.)
LiveSpec ==
  /\ Init
  /\ [][LiveNext]_vars
  /\ WF_mq(RunMicrotask)
  /\ WF_tasks(\E t \in tasks : ImportResolve(t) \/ InferenceResolve(t))

\* The slider on a page that processes one image: the pointer events of the
\* slider, and the pipeline of a single valid file up to showResult.
SubmitFirst ==
  /\ nextBatch = 1
  /\ HandleFiles(<<[type |-> "image/jpeg", size |-> maxSize]>>)

SliderNext ==
  \/ \E target \in Targets : MouseDown(target)
  \/ \E target \in Targets : TouchStart(target)
  \/ MouseUp
  \/ TouchEnd
  \/ \E clientX \in ClientXs, rect \in Rects : MouseMove(clientX, rect)
  \/ \E touches \in TouchLists, rect \in Rects : TouchMove(touches, rect)
  \/ \E target \in Targets, clientX \in ClientXs, rect \in Rects :
       Click(target, clientX, rect)
  \/ SubmitFirst
  \/ RunMicrotask
  \/ \E t \in tasks : ImportResolve(t)
  \/ \E t \in tasks : InferenceResolve(t)

SliderSpec == Init /\ [][SliderNext]_vars

\* One run of the asset fetcher.
FetchLoop ==
  \/ \E hash \in Hashes : ChunkExists(hash)
  \/ \E hash \in Hashes, size \in ChunkSizes : ChunkDownloaded(hash, size)
  \/ \E hash \in Hashes : ChunkFailed(hash)
  \/ Summary

FetchNext ==
  \/ \E disk \in SUBSET Hashes : Main(disk)
  \/ ManifestFailed
  \/ ManifestUnreadable
  \/ \E m \in Manifests : ManifestFetched(m)
  \/ FetchLoop

\* Every fetch of a chunk settles (it returns or throws), and the script goes
\* on from one iteration to the next.
FetchSpec == Init /\ [][FetchNext]_vars /\ WF_vars(FetchLoop)

----------------------------------------------------------------------------
\* Properties

\* The file a record, a task or a URL comes from, and its handleFiles call.
RecordFile(rec) == rec.original[2]
RecordFiles == {RecordFile(processedImages[i]) : i \in 1..Len(processedImages)}
BatchOf(id) == id[1]
PositionOf(id) == id[2]
InFlight == {t \in tasks : t.phase = "inference"}
Settled == tasks = {} /\ mq = <<>>
HandleFilesStep == nextBatch' = nextBatch + 1
TenMiB == 10485760

\* C1: at most one inference call of a batch is in flight at any time: the
\* inference of a later file of the batch is not started before processImage
\* of the earlier one has finished.
C1_OneInferenceInFlight ==
  \A t1, t2 \in InFlight : BatchOf(t1.file) = BatchOf(t2.file) => t1 = t2

\* C2: when all files of every batch were processed successfully and nothing
\* is pending, each batch has one record per accepted file and the records
\* of a batch are stored in submission order.
C2_RecordsInSubmissionOrder ==
  (Settled /\ started = RecordFiles) =>
    /\ Len(processedImages) = Cardinality(started)
    /\ \A i, j \in 1..Len(processedImages) :
         (i < j /\ BatchOf(RecordFile(processedImages[i]))
                     = BatchOf(RecordFile(processedImages[j])))
           => PositionOf(RecordFile(processedImages[i]))
                < PositionOf(RecordFile(processedImages[j]))

\* C3: right after handleFiles(files), the k-th file was accepted (passed to
\* processImage or queued for it) if and only if its type is JPEG, PNG or WebP
\* and its size is at most 10 MiB, and was rejected otherwise.
C3_FilterAcceptsExactlyValidFiles ==
  lastEvent.type = "handleFiles" =>
    \A k \in 1..Len(lastEvent.files) :
      LET f == lastEvent.files[k]
          id == <<nextBatch - 1, k>>
          ok == /\ f.type \in {"image/jpeg", "image/png", "image/webp"}
                /\ f.size <= TenMiB
      IN /\ (id \in started \cup Waiting) <=> ok
         /\ (id \in rejected) <=> ~ok

C3_Witness ==
  /\ lastEvent.type = "handleFiles"
  /\ lastEvent.files = <<[type |-> "image/webp", size |-> TenMiB],
                         [type |-> "image/png", size |-> TenMiB + 1],
                         [type |-> "image/gif", size |-> 0]>>
  /\ started = {<<1, 1>>}
  /\ rejected = {<<1, 2>>, <<1, 3>>}

\* C4: a rejected file is never passed to processImage (no task, no pending
\* loop entry and no record comes from it), and a handleFiles call that
\* rejects every file leaves processedImages, currentImageIndex, the views
\* and the running tasks as they were and shows the error message.
C4_RejectedNeverProcessed ==
  /\ [](\A id \in rejected :
          /\ id \notin started \cup Waiting \cup RecordFiles
          /\ \A t \in tasks : t.file # id)
  /\ [][(HandleFilesStep /\ lastEvent'.index = 0) =>
          /\ UNCHANGED <<store, views, shown, tasks, mq, started>>
          /\ errorActive'
          /\ errorText' \in {TypeErrorText, SizeErrorText}]_vars

C4_Witness ==
  /\ lastEvent.type = "handleFiles"
  /\ lastEvent.index = 0
  /\ Len(lastEvent.files) = 2
  /\ Len(processedImages) = 1
  /\ resultActive
  /\ errorActive

\* C5: whenever handleFiles rejects at least one file, the error message is
\* displayed when handleFiles returns.
C5_RejectionShowsError ==
  [][(HandleFilesStep /\ rejected' # rejected) => errorActive']_vars

\* C6: currentImageIndex is -1 exactly when processedImages is empty, and
\* otherwise a valid index of processedImages.
C6_CursorInRange ==
  /\ (currentImageIndex = -1) <=> (processedImages = <<>>)
  /\ processedImages # <<>> =>
       (0 <= currentImageIndex /\ currentImageIndex <= Len(processedImages) - 1)

C6_Witness ==
  /\ Len(processedImages) = 2
  /\ currentImageIndex = 0
  /\ lastEvent.type = "keydown" /\ lastEvent.key = "ArrowLeft"
  /\ tasks # {}

\* C7: the step in which an item fails (import or inference rejected) shows
\* the failure message, hides the processing and result views, shows the
\* upload view and leaves processedImages and currentImageIndex unchanged.
C7_FailureReturnsToUpload ==
  [][(lastEvent'.type \in {"importReject", "inferenceReject"}) =>
       /\ errorActive'
       /\ lastEvent'.type = "importReject" =>
            errorText' \in {"Failed to load background removal model: ",
                            "Failed to load background removal model: net"}
       /\ lastEvent'.type = "inferenceReject" =>
            errorText' \in {DefaultErrorText, "inference failed"}
       /\ ~processingActive'
       /\ ~resultActive'
       /\ uploadDisplay' = "block"
       /\ UNCHANGED <<processedImages, currentImageIndex>>]_vars

C7_Witness ==
  /\ lastEvent.type = "inferenceReject"
  /\ Len(processedImages) = 1
  /\ currentImageIndex = 0
  /\ errorActive
  /\ uploadDisplay = "block"
  /\ tasks # {}

\* C8: if every import and inference succeeds, a batch of three valid images
\* submitted to an empty queue leads to three records of these images, the
\* queue indicator shown, cursor 2 and the result view; a single valid image
\* leads to one record, cursor 0 and the indicator hidden (unless a further
\* batch is submitted meanwhile).
FirstBatch ==
  CHOOSE b \in {BatchOf(id) : id \in started} :
    \A id \in started : b <= BatchOf(id)

BatchAlone(n) ==
  /\ lastEvent.type = "handleFiles"
  /\ Len(lastEvent.files) = n
  /\ lastEvent.index = n
  /\ processedImages = <<>>
  /\ \A id \in started \cup Waiting : BatchOf(id) = nextBatch - 1

BatchShown(n) ==
  /\ Len(processedImages) = n
  /\ RecordFiles = {<<FirstBatch, k>> : k \in 1..n}
  /\ currentImageIndex = n - 1
  /\ queueActive = (n > 1)
  /\ resultActive

FurtherBatch == started # {} /\ nextBatch > FirstBatch + 1

C8_BatchEventuallyShown ==
  /\ BatchAlone(3) ~> (BatchShown(3) \/ FurtherBatch)
  /\ BatchAlone(1) ~> (BatchShown(1) \/ FurtherBatch)

C8_Witness ==
  /\ BatchShown(3)
  /\ ~FurtherBatch
  /\ lastEvent.type = "inferenceResolve"
  /\ lastEvent.file = <<1, 1>>

\* C9: while the result view is shown, ArrowLeft at index 0 and ArrowRight
\* at the last index leave currentImageIndex unchanged, otherwise they move
\* it by exactly one; no key changes processedImages.
C9_ArrowKeysClamp ==
  [][(lastEvent'.type = "keydown" /\ resultActive) =>
       /\ processedImages' = processedImages
       /\ lastEvent'.key = "ArrowLeft" =>
            currentImageIndex' =
              (IF currentImageIndex = 0 THEN 0 ELSE currentImageIndex - 1)
       /\ lastEvent'.key = "ArrowRight" =>
            currentImageIndex' =
              (IF currentImageIndex = Len(processedImages) - 1
               THEN currentImageIndex ELSE currentImageIndex + 1)]_vars

C9_Witness ==
  /\ lastEvent.type = "keydown" /\ lastEvent.key = "ArrowRight"
  /\ Len(processedImages) = 3
  /\ currentImageIndex = 1
  /\ resultActive

\* C10: a click on a queue item with index i inside 0..length-1 sets
\* currentImageIndex to i and displays the pair of processedImages[i]; a
\* click with an index outside changes neither; every click handler, of a
\* listed item or of one removed by a later updateQueue, has an index inside.
C10_SelectByIndex ==
  /\ [](ItemIndexes(queueList) \cup detached \subseteq 0..(Len(processedImages) - 1))
  /\ [][(lastEvent'.type = "clickItem") =>
          IF lastEvent'.index \in 0..(Len(processedImages) - 1)
          THEN /\ currentImageIndex' = lastEvent'.index
               /\ originalSrc' = processedImages[lastEvent'.index + 1].original
               /\ resultSrc' = processedImages[lastEvent'.index + 1].result
               /\ resultActive'
          ELSE UNCHANGED <<currentImageIndex, originalSrc, resultSrc>>]_vars

C10_Witness ==
  /\ lastEvent.type = "clickItem" /\ lastEvent.key = "detached"
  /\ lastEvent.index = 0
  /\ Len(processedImages) = 3
  /\ currentImageIndex = 0
  /\ originalSrc = processedImages[1].original
  /\ resultSrc = processedImages[1].result

----------------------------------------------------------------------------
\* Comparison slider

\* The step is a pointer event whose listener called handleSliderMove.
HandleSliderMoveRan ==
  \/ lastEvent'.type = "mousemove" /\ isDragging
  \/ lastEvent'.type = "touchmove" /\ isDragging /\ Len(lastEvent'.files) = 1
  \/ lastEvent'.type = "click" /\ lastEvent'.key = "image"

\* C11: whatever pointer coordinate handleSliderMove is called with and
\* whatever the bounding box of the comparison container is, the position it
\* sets is a number in [0,100]: 0 for a pointer left of the box, 100 for a
\* pointer right of it, and 100 * x / width for a pointer inside.
C11_SliderPositionClamped ==
  [][HandleSliderMoveRan =>
       LET x == lastEvent'.index - lastEvent'.file[1]
           width == lastEvent'.file[2]
           p == sliderPosition'
       IN /\ p.kind = "number"
          /\ 0 <= p.num /\ p.num <= 100 * p.den
          /\ x < 0 => (p.num = 0)
          /\ x > width => (p.num = 100 * p.den)
          /\ (0 <= x /\ x <= width) => (p.num * width = 100 * x * p.den)]_vars

\* C18: isDragging becomes true only by a mousedown or touchstart on the
\* divider line (or inside it) and is false after every mouseup or touchend,
\* which are the only events that end a drag; a mouse move changes the
\* position only while isDragging, a touch move only while isDragging with
\* exactly one touch point, and a click in the comparison area only when its
\* target is neither the line nor inside it.
Presses == {"mousedown", "touchstart"}
Releases == {"mouseup", "touchend"}

C18_DragProtocol ==
  [][/\ (~isDragging /\ isDragging') =>
          (lastEvent'.type \in Presses
             /\ lastEvent'.key \in {"sliderLine", "insideSliderLine"})
     /\ lastEvent'.type \in Releases => ~isDragging'
     /\ (isDragging /\ ~isDragging') => lastEvent'.type \in Releases
     /\ (lastEvent'.type = "mousemove" /\ ~isDragging) => UNCHANGED sliderPosition
     /\ (lastEvent'.type = "touchmove" /\ (~isDragging \/ Len(lastEvent'.files) # 1))
          => UNCHANGED sliderPosition
     /\ (lastEvent'.type = "click" /\ lastEvent'.key # "image")
          => UNCHANGED sliderPosition]_vars

\* A drag is going on and the latest mouse move put the slider at a quarter.
C18_Witness ==
  /\ isDragging
  /\ lastEvent.type = "mousemove"
  /\ sliderPosition = Number(25, 1)

----------------------------------------------------------------------------
\* Queue, shortcuts, model loading, batches, views

\* C12: in every reachable state the queue container is shown if and only if
\* more than one image has been processed.
C12_QueueShownIffSeveral == queueActive <=> (Len(processedImages) > 1)

C12_Witness ==
  queueActive /\ Len(processedImages) = 2 /\ lastEvent.type = "inferenceResolve"

\* C14: a key pressed while the result view is not shown changes neither
\* currentImageIndex, nor processedImages, nor the displayed images, nor the
\* visible view, and triggers no download.
C14_ShortcutsOnlyInResultView ==
  [][(lastEvent'.type = "keydown" /\ ~resultActive) =>
       /\ UNCHANGED <<currentImageIndex, processedImages, originalSrc, resultSrc>>
       /\ UNCHANGED <<uploadDisplay, processingActive, resultActive>>
       /\ download' = NoDownload]_vars

\* "d" was pressed outside the result view although an image could be downloaded.
C14_Witness ==
  /\ lastEvent.type = "keydown" /\ lastEvent.key = "d"
  /\ ~resultActive
  /\ Len(processedImages) > 0

\* C15: the inference module is imported at most once: no import() is
\* started while an earlier one is pending or after one has succeeded, so at
\* most one import is ever in progress.
Importing == {t \in tasks : t.phase = "import"}

C15_ImportAtMostOnce ==
  /\ Cardinality(Importing) <= 1
  /\ removeBackgroundFn # Null => Importing = {}

\* C16: every accepted file of a batch is passed to processImage exactly
\* once, none is skipped and none is retried after a failure, and once the
\* batch is done processedImages holds one record for each of its N accepted
\* files except the k that failed.
TaskFiles == {t.file : t \in tasks}
OfBatch(ids, b) == {id \in ids : BatchOf(id) = b}
AcceptedNow ==
  {<<nextBatch, k>> : k \in {j \in 1..Len(lastEvent'.files) :
       /\ lastEvent'.files[j].type \in {"image/jpeg", "image/png", "image/webp"}
       /\ lastEvent'.files[j].size <= TenMiB}}

C16_EachFileAttemptedOnce ==
  /\ [](/\ failedFiles \cap RecordFiles = {}
        /\ Len(processedImages) = Cardinality(RecordFiles)
        /\ Settled =>
              \A b \in 1..(nextBatch - 1) :
                Cardinality(OfBatch(RecordFiles, b))
                  = Cardinality(OfBatch(started, b)) - Cardinality(OfBatch(failedFiles, b)))
  /\ [][/\ (TaskFiles' \ TaskFiles) \cap started = {}
        /\ (Waiting \ Waiting') \subseteq (started' \ started)
        /\ HandleFilesStep =>
              (started' \cup Waiting') \ (started \cup Waiting) = AcceptedNow]_vars

\* The second file of a batch failed and the third was processed after it.
C16_Witness ==
  /\ Settled
  /\ \E f \in failedFiles, r \in RecordFiles :
        BatchOf(f) = BatchOf(r) /\ PositionOf(f) = 2 /\ PositionOf(r) = 3

\* C17: whenever the result view is shown, the two displayed images are the
\* original and the result of the record at currentImageIndex.
C17_ShownImagesAtCursor ==
  resultActive =>
    /\ currentImageIndex >= 0 /\ currentImageIndex < Len(processedImages)
    /\ originalSrc = processedImages[currentImageIndex + 1].original
    /\ resultSrc = processedImages[currentImageIndex + 1].result

\* The result view shows the first of several images again.
C17_Witness ==
  /\ resultActive
  /\ Len(processedImages) >= 2
  /\ currentImageIndex = 0
  /\ originalSrc = processedImages[1].original

\* C20: the upload, processing and result views exclude each other, and
\* while an inference call is in flight the visible view is the processing
\* view; stated in the part that decides it: the result view is never shown
\* while an inference call is in flight.
C20_ProcessingViewWhileInferring == InFlight # {} => ~resultActive

----------------------------------------------------------------------------
\* Asset fetcher

LogHashes(log) == {log[i].hash : i \in 1..Len(log)}
LogCount(log, outcome) == Cardinality({i \in 1..Len(log) : log[i].outcome = outcome})
ManifestHashes ==
  UNION {{fetch.manifest[r].chunks[c] : c \in 1..Len(fetch.manifest[r].chunks)} :
           r \in {q \in 1..Len(fetch.manifest) : fetch.manifest[q].hasChunks}}
RECURSIVE DownloadedBytes(_)
DownloadedBytes(log) ==
  IF log = <<>> THEN 0
  ELSE (IF Head(log).outcome = "downloaded" THEN Head(log).size ELSE 0)
         + DownloadedBytes(Tail(log))

\* C13: a run that ends for a manifest that could not be fetched has a
\* non-zero exit code and has fetched no chunk; a chunk that fails is counted
\* and the loop goes on with the chunk after it, so that a run whose manifest
\* was fetched reaches its end with every chunk attempted or found present.
C13_FetchFailures ==
  /\ [](fetch.pc = "exited" => (fetch.exitCode > 0 /\ fetch.log = <<>>))
  /\ [](fetch.pc = "done" =>
          (fetch.exitCode = 0 /\ LogHashes(fetch.log) = ManifestHashes))
  /\ [][LogCount(fetch'.log, "failed") > LogCount(fetch.log, "failed") =>
          /\ fetch'.failed = fetch.failed + 1
          /\ fetch'.pc = "chunks"
          /\ fetch'.pending = Tail(fetch.pending)]_vars
  /\ (fetch.pc = "chunks") ~> (fetch.pc = "done")

\* The run ended after a chunk failed and the chunk after it was downloaded.
C13_Witness ==
  /\ fetch.pc = "done"
  /\ \E i, j \in 1..Len(fetch.log) :
        i < j /\ fetch.log[i].outcome = "failed" /\ fetch.log[j].outcome = "downloaded"

\* C19: every distinct chunk hash of the manifest is handled exactly once,
\* a chunk that is present is skipped and never fetched, the three counters
\* count the log, and at the end downloaded + skipped + failed is the number
\* of distinct hashes and totalBytes the sum of the sizes of the downloaded
\* chunks.
C19_FetchAccounting ==
  /\ [](/\ \A i, j \in 1..Len(fetch.log) :
             fetch.log[i].hash = fetch.log[j].hash => i = j
        /\ fetch.pc \in {"chunks", "done"} =>
              /\ LogHashes(fetch.log) \subseteq ManifestHashes
              /\ fetch.downloaded = LogCount(fetch.log, "downloaded")
              /\ fetch.skipped = LogCount(fetch.log, "exists")
              /\ fetch.failed = LogCount(fetch.log, "failed")
              /\ fetch.totalBytes = DownloadedBytes(fetch.log)
        /\ fetch.pc = "done" =>
              /\ LogHashes(fetch.log) = ManifestHashes
              /\ fetch.downloaded + fetch.skipped + fetch.failed
                   = Cardinality(ManifestHashes))
  /\ [][Len(fetch'.log) > Len(fetch.log) =>
          LET entry == fetch'.log[Len(fetch'.log)]
          IN (entry.outcome = "exists") <=> (entry.hash \in fetch.present)]_vars

\* A manifest that names a hash twice, with one chunk present and one fetched.
C19_Witness ==
  /\ fetch.pc = "done"
  /\ fetch.downloaded = 1 /\ fetch.skipped = 1
  /\ \E r \in 1..Len(fetch.manifest) :
        /\ Len(fetch.manifest[r].chunks) = 2
        /\ fetch.manifest[r].chunks[1] = fetch.manifest[r].chunks[2]
====
